---- MODULE Spec2Model ----
(***************************************************************************)
(* Model of custom_components/olarm_sensors/olarm_api.py: the rate limiter *)
(* OlarmRateLimiter shared per API key, and the OlarmApi client operations *)
(* that are gated by it.                                                   *)
(*                                                                         *)
(* asyncio runs one coroutine at a time, so every action is the code that  *)
(* runs between two awaits.  Time is in whole seconds.  The timestamps of  *)
(* the code are kept relative to time.monotonic(): a limiter holds         *)
(*   elapsed      = time.monotonic() - _last_request_time (line 84),       *)
(*                  saturated at _min_gap, above which the code does not   *)
(*                  tell values apart;                                     *)
(*   backoff_left = max(0, _backoff_until - time.monotonic()) (line 56);   *)
(* and a sleeping caller holds the seconds left of its asyncio.sleep().    *)
(***************************************************************************)
EXTENDS Integers, Sequences, FiniteSets, Bags, TLC

VARIABLES
    limiters,       \* the OlarmRateLimiter objects created so far, by identity
    _rate_limiters, \* OlarmApi._rate_limiters: api key -> limiter identity (0: no entry)
    apis,           \* the OlarmApi objects: api_key and _rate_limiter of each
    calls,          \* the client calls in progress (a bag: calls carry no identity)
    event,          \* the step just taken: a call started, a call returned a value
    started,        \* the number of client calls made so far
    lastOp,         \* per limiter: the last record_* / reset_cycle applied to it
    argument,       \* the argument of the function applied on its own: an action
                    \* list and an area, or a devices_json
    result          \* what that function returned or raised

vars == <<limiters, _rate_limiters, apis, calls, event, started, lastOp, argument, result>>

-----------------------------------------------------------------------------
(* const.py *)
API_MIN_REQUEST_GAP == 2
API_BACKOFF_BASE == 60
API_BACKOFF_MAX == 300
API_MAX_CONSECUTIVE_429 == 3

(* Bounds of the model *)
MaxCalls == 2       \* client calls in progress at one time under one key
MaxStarted == 4     \* client calls made in one behaviour
NumApis == 4        \* OlarmApi objects constructed in the registry specification
NumKeys == 3        \* distinct api keys in the registry specification

NumClients == 2     \* OlarmApi objects (devices) of the shared key
MaxChanges == 2     \* entries of an action list handed to get_changed_by_json
MaxLimit == 3       \* the largest zonesLimit, pgmLimit, ukeysLimit, areasLimit of a payload
Clients == 1..NumClients
Apis == 1..NumApis
ApiKeys == 1..NumKeys
SharedKey == CHOOSE k \in ApiKeys : TRUE

Min(a, b) == IF a <= b THEN a ELSE b
Max(a, b) == IF a >= b THEN a ELSE b

RECURSIVE Pow2(_)
Pow2(n) == IF n <= 0 THEN 1 ELSE 2 * Pow2(n - 1)

-----------------------------------------------------------------------------
(* class OlarmRateLimiter *)

(* __init__, lines 43-46, at an instant when time.monotonic() is 0 *)
OlarmRateLimiter ==
    [_min_gap |-> API_MIN_REQUEST_GAP,
     elapsed |-> 0,
     backoff_left |-> 0,
     _consecutive_429s |-> 0]

is_backed_off(l) == l.backoff_left > 0

backoff_remaining(l) == Max(0, l.backoff_left)

(* A record_success() that also ends the backoff window *)
record_success_clears_backoff(l) ==
    [l EXCEPT !._consecutive_429s = 0, !.backoff_left = 0]

record_success(l) == [l EXCEPT !._consecutive_429s = 0]

(* A schedule whose exponent is one too large *)
BackoffSecondsDoubled(n) == Min(API_BACKOFF_BASE * Pow2(n), API_BACKOFF_MAX)

(* lines 99-102 *)
BackoffSeconds(n) == Min(API_BACKOFF_BASE * Pow2(n - 1), API_BACKOFF_MAX)

record_rate_limit(l) ==
    [l EXCEPT !._consecutive_429s = @ + 1,
              !.backoff_left = BackoffSeconds(l._consecutive_429s + 1)]

(* A reset_cycle() that also ends the backoff window *)
reset_cycle_clears_backoff(l) ==
    [l EXCEPT !._consecutive_429s = 0, !.backoff_left = 0]

reset_cycle(l) == [l EXCEPT !._consecutive_429s = 0]

(* A breaker that opens one response late *)
TooManyConsecutiveStrict(l) == l._consecutive_429s > API_MAX_CONSECUTIVE_429

(* wait_for_slot, line 66: the circuit breaker *)
TooManyConsecutive(l) == l._consecutive_429s >= API_MAX_CONSECUTIVE_429

(* A gap wait that sleeps the whole gap whatever has elapsed *)
GapWaitWhole(l) == IF l.elapsed < l._min_gap THEN l._min_gap ELSE 0

(* wait_for_slot, lines 83-87: the seconds still to sleep, 0 for none *)
GapWait(l) == IF l.elapsed < l._min_gap THEN l._min_gap - l.elapsed ELSE 0

(* wait_for_slot, line 89: _last_request_time = time.monotonic() *)
TakeSlot(l) == [l EXCEPT !.elapsed = 0]

(* d seconds pass *)
Later(l, d) ==
    [l EXCEPT !.elapsed = Min(@ + d, l._min_gap),
              !.backoff_left = Max(0, @ - d)]

-----------------------------------------------------------------------------
(* class OlarmApi *)

Ops == {"get_device_json", "get_changed_by_json", "send_action", "get_all_devices"}

(* lines 126-155: an OlarmApi object, with the lists its decoders keep *)
OlarmApi(api_key, limiter) ==
    [api_key |-> api_key, _rate_limiter |-> limiter,
     data |-> <<>>, bypass_data |-> <<>>, panel_data |-> <<>>]
NoApi == OlarmApi(0, 0)

-----------------------------------------------------------------------------
(* Response bodies are character sequences, so that str.lower() and the    *)
(* `in` substring test are computed and not assumed.                       *)

UpperCase ==
    <<"A", "B", "C", "D", "E", "F", "G", "H", "I", "J", "K", "L", "M", "N", "O", "P", "Q",
      "R", "S", "T", "U", "V", "W", "X", "Y", "Z">>
LowerCase ==
    <<"a", "b", "c", "d", "e", "f", "g", "h", "i", "j", "k", "l", "m", "n", "o", "p", "q",
      "r", "s", "t", "u", "v", "w", "x", "y", "z">>

LowerChar(ch) ==
    IF \E i \in 1..Len(UpperCase) : UpperCase[i] = ch
    THEN LowerCase[CHOOSE i \in 1..Len(UpperCase) : UpperCase[i] = ch]
    ELSE ch

lower(text) == [i \in 1..Len(text) |-> LowerChar(text[i])]

(* needle in text *)
Contains(needle, text) ==
    \E i \in 0..(Len(text) - Len(needle)) :
        SubSeq(text, i + 1, i + Len(needle)) = needle

TextForbidden == <<"F", "o", "r", "b", "i", "d", "d", "e", "n">>
TextForbiddenLower == <<"f", "o", "r", "b", "i", "d", "d", "e", "n">>
TextTooMany ==
    <<"T", "o", "o", " ", "M", "a", "n", "y", " ", "R", "e", "q", "u", "e", "s", "t", "s">>
TextTooManyLower ==
    <<"t", "o", "o", " ", "m", "a", "n", "y", " ", "r", "e", "q", "u", "e", "s", "t", "s">>
TextBadGateway == <<"B", "a", "d", " ", "G", "a", "t", "e", "w", "a", "y">>
TextOk == <<"o", "k">>
TextOkUpper == <<"O", "K">>
TextFail == <<"f", "a", "i", "l">>

(* line 163; the dash of the message is written in ASCII here *)
RateLimitedMessage ==
    <<"R", "a", "t", "e", " ", "l", "i", "m", "i", "t", "e", "d", " ", "-", " ", "t", "o",
      "o", " ", "m", "a", "n", "y", " ", "c", "o", "n", "s", "e", "c", "u", "t", "i", "v", "e",
      " ", "4", "2", "9", " ", "r", "e", "s", "p", "o", "n", "s", "e", "s">>

-----------------------------------------------------------------------------
(* HTTP responses.  body = "json" when response.json() parses the body,    *)
(* "text" when it raises ContentTypeError; doc is the parsed JSON.         *)

DefaultChange ==
    [userFullname |-> "No User", actionCreated |-> 0, actionCmd |-> "None",
     actionNum |-> 0, formatted |-> FALSE]

NoDoc == [keys |-> {}, actionStatus |-> <<>>, changes |-> <<>>]

Change(user, created, cmd, num) ==
    [userFullname |-> user, actionCreated |-> created, actionCmd |-> cmd,
     actionNum |-> num, formatted |-> FALSE]

ActionKeys == {"actionStatus", "actionCmd", "deviceName", "actionMsg"}

JsonDocs ==
    { [keys |-> ActionKeys, actionStatus |-> st, changes |-> <<>>] :
          st \in {TextOk, TextOkUpper, TextFail} }
    \cup { [keys |-> {"actionStatus"}, actionStatus |-> TextFail, changes |-> <<>>] }
    \cup { [keys |-> {"data"}, actionStatus |-> <<>>, changes |-> <<>>] }
    \cup { [keys |-> {}, actionStatus |-> <<>>,
            changes |-> <<Change("Ann", 5, "area-arm", 1),
                          Change("Bob", 7, "zone-bypass", 1)>>] }

ChangesDoc ==
    [keys |-> {}, actionStatus |-> <<>>,
     changes |-> <<Change("Ann", 5, "area-arm", 1), Change("Bob", 7, "zone-bypass", 1)>>]

NoResponse == [status |-> 0, body |-> "", text |-> <<>>, doc |-> NoDoc]
TextResponse(status, text) == [status |-> status, body |-> "text", text |-> text, doc |-> NoDoc]
JsonResponse(status, doc) == [status |-> status, body |-> "json", text |-> <<>>, doc |-> doc]

Responses ==
    { TextResponse(200, t) :
          t \in {TextForbidden, TextForbiddenLower, TextTooMany, TextTooManyLower,
                 TextBadGateway} }
    \cup { TextResponse(502, TextBadGateway), TextResponse(429, TextTooMany) }
    \cup { JsonResponse(200, d) : d \in JsonDocs }
    \cup { JsonResponse(404, ChangesDoc) }

Areas == {1, 2}

(* Values handed back to the caller *)
Value(kind, tag, text, item) ==
    [kind |-> kind, tag |-> tag, text |-> text, item |-> item, auth_success |-> ""]
ErrorDict(text) == Value("dict", "error", text, DefaultChange)
ErrorDictEx == Value("dict", "error", <<>>, DefaultChange)
DeviceDict == Value("dict", "device", <<>>, DefaultChange)
ChangeDict(item) == Value("dict", "change", <<>>, item)
Bool(b) == Value("bool", IF b THEN "True" ELSE "False", <<>>, DefaultChange)
EmptyList == Value("list", "empty", <<>>, DefaultChange)
DataList == Value("list", "data", <<>>, DefaultChange)
Raised(ex) == Value("raise", ex, <<>>, DefaultChange)
Nothing == Value("", "", <<>>, DefaultChange)

(* check_credentials, lines 313-328, applied to what get_device_json()     *)
(* returned or raised: resp["error"] is None exactly for the parsed JSON   *)
(* of line 182.                                                            *)
CaughtByCheckCredentials ==
    {"APIClientConnectorError", "APIContentTypeError", "IndexError", "KeyError"}

check_credentials(resp) ==
    IF resp.kind = "raise"
    THEN IF resp.tag \in CaughtByCheckCredentials
         THEN [ErrorDictEx EXCEPT !.auth_success = "False"]
         ELSE resp
    ELSE [resp EXCEPT !.auth_success = IF resp.tag = "device" THEN "True" ELSE "False"]

(* A send_action that reports success when it was denied a slot *)
DeniedButTrue(op) ==
    CASE op = "get_device_json" -> ErrorDict(RateLimitedMessage)
      [] op = "get_changed_by_json" -> ChangeDict(DefaultChange)
      [] op = "send_action" -> Bool(TRUE)
      [] op = "get_all_devices" -> EmptyList
      [] op = "check_credentials" -> check_credentials(ErrorDict(RateLimitedMessage))

(* What each operation returns when wait_for_slot() is False:              *)
(* lines 162-163, 228-229, 647-652, 796-797                                *)
Denied(op) ==
    CASE op = "get_device_json" -> ErrorDict(RateLimitedMessage)
      [] op = "get_changed_by_json" -> ChangeDict(DefaultChange)
      [] op = "send_action" -> Bool(FALSE)
      [] op = "get_all_devices" -> EmptyList
      [] op = "check_credentials" -> check_credentials(ErrorDict(RateLimitedMessage))

(* What each operation returns on APIClientConnectorError *)
ConnectorFailed(op) ==
    CASE op = "get_device_json" -> ErrorDictEx
      [] op = "get_changed_by_json" -> ChangeDict(DefaultChange)
      [] op = "send_action" -> Bool(FALSE)
      [] op = "get_all_devices" -> EmptyList
      [] op = "check_credentials" -> check_credentials(ErrorDictEx)

(* What each operation does when the request raises an exception that is   *)
(* no APIClientConnectorError, such as asyncio.TimeoutError when the       *)
(* session's timeout expires: no except clause of lines 213, 300-306, 694  *)
(* and 840 names it, so it leaves the operation.                           *)
TimedOut(op) ==
    CASE op = "check_credentials" -> check_credentials(Raised("TimeoutError"))
      [] OTHER -> Raised("TimeoutError")

(* The outcome of handling a response: the limiter method applied and the  *)
(* value returned.                                                         *)
Outcome(limiterOp, value) == [limiterOp |-> limiterOp, value |-> value]

(* A get_device_json that takes a 502 for a rate limit *)
get_device_json_backs_off_on_502(r) ==
    IF r.status = 429 THEN Outcome("record_rate_limit", ErrorDict(r.text))
    ELSE IF r.body = "json" THEN Outcome("record_success", DeviceDict)
    ELSE IF Contains(TextForbiddenLower, lower(r.text)) THEN Outcome("none", ErrorDict(r.text))
    ELSE IF r.status = 502 THEN Outcome("record_rate_limit", ErrorDict(r.text))
    ELSE IF Contains(TextTooManyLower, lower(r.text))
         THEN Outcome("record_rate_limit", ErrorDict(r.text))
    ELSE Outcome("none", ErrorDict(r.text))

get_device_json(r) ==
    IF r.status = 429 THEN Outcome("record_rate_limit", ErrorDict(r.text))
    ELSE IF r.body = "json" THEN Outcome("record_success", DeviceDict)
    ELSE IF Contains(TextForbiddenLower, lower(r.text)) THEN Outcome("none", ErrorDict(r.text))
    ELSE IF r.status = 502 THEN Outcome("none", ErrorDict(r.text))
    ELSE IF Contains(TextTooManyLower, lower(r.text))
         THEN Outcome("record_rate_limit", ErrorDict(r.text))
    ELSE Outcome("none", ErrorDict(r.text))

NotArmActions == {"zone-bypass", "pgm-open", "pgm-close", "pgm-pulse", "ukey-activate"}

(* A test that lets a later entry of the same age replace the one held *)
ReplacesOrEqual(change, area, return_data) ==
    /\ change.actionCmd \notin NotArmActions
    /\ change.actionNum = area
    /\ return_data.actionCreated <= change.actionCreated

(* lines 263-275 *)
Replaces(change, area, return_data) ==
    /\ change.actionCmd \notin NotArmActions
    /\ change.actionNum = area
    /\ return_data.actionCreated < change.actionCreated

(* lines 262-276: the loop over the parsed list *)
RECURSIVE SelectChange(_, _, _)
SelectChange(changes, area, return_data) ==
    IF changes = <<>> THEN return_data
    ELSE LET change == Head(changes)
         IN  SelectChange(Tail(changes), area,
                IF Replaces(change, area, return_data) THEN change ELSE return_data)

(* lines 286-293: actionCreated becomes a display string *)
FormatCreated(return_data) == [return_data EXCEPT !.formatted = TRUE]

get_changed_by_json(r, area) ==
    IF r.status = 404 THEN Outcome("record_success", ChangeDict(DefaultChange))
    ELSE IF r.status = 429 THEN Outcome("record_rate_limit", ChangeDict(DefaultChange))
    ELSE IF r.body = "json"
         THEN Outcome("record_success",
                      ChangeDict(FormatCreated(SelectChange(r.doc.changes, area, DefaultChange))))
    ELSE Outcome("none", ChangeDict(FormatCreated(DefaultChange)))

(* A send_action that records success only for an accepted action *)
send_action_success_when_ok(r) ==
    IF r.status = 429 THEN Outcome("record_rate_limit", Bool(FALSE))
    ELSE IF r.body = "json"
         THEN IF "actionStatus" \notin r.doc.keys
              THEN Outcome("none", Raised("KeyError"))
              ELSE IF lower(r.doc.actionStatus) # TextOk
              THEN Outcome("none", Bool(FALSE))
              ELSE Outcome("record_success", Bool(TRUE))
    ELSE IF Contains(TextTooManyLower, lower(r.text))
         THEN Outcome("record_rate_limit", Bool(FALSE))
    ELSE Outcome("none", Bool(FALSE))

(* lines 660-692.  resp["actionStatus"] of line 673 and the fields read    *)
(* for the log of lines 674-679 raise KeyError when the response lacks     *)
(* them, after record_success() of line 672.                               *)
send_action(r) ==
    IF r.status = 429 THEN Outcome("record_rate_limit", Bool(FALSE))
    ELSE IF r.body = "json"
         THEN IF "actionStatus" \notin r.doc.keys
              THEN Outcome("record_success", Raised("KeyError"))
              ELSE IF lower(r.doc.actionStatus) # TextOk
                      /\ ~({"actionCmd", "deviceName", "actionMsg"} \subseteq r.doc.keys)
              THEN Outcome("record_success", Raised("KeyError"))
              ELSE Outcome("record_success", Bool(lower(r.doc.actionStatus) = TextOk))
    ELSE IF Contains(TextTooManyLower, lower(r.text))
         THEN Outcome("record_rate_limit", Bool(FALSE))
    ELSE Outcome("none", Bool(FALSE))

get_all_devices(r) ==
    IF r.status = 429 THEN Outcome("record_rate_limit", EmptyList)
    ELSE IF r.body = "json"
         THEN IF "data" \in r.doc.keys
              THEN Outcome("record_success", DataList)
              ELSE Outcome("none", Raised("KeyError"))
    ELSE IF Contains(TextForbidden, r.text) THEN Outcome("none", EmptyList)
    ELSE IF Contains(TextTooMany, r.text) THEN Outcome("record_rate_limit", EmptyList)
    ELSE Outcome("none", EmptyList)

Handle(op, r, area) ==
    CASE op = "get_device_json" -> get_device_json(r)
      [] op = "get_changed_by_json" -> get_changed_by_json(r, area)
      [] op = "send_action" -> send_action(r)
      [] op = "get_all_devices" -> get_all_devices(r)
      [] op = "check_credentials" ->
             Outcome(get_device_json(r).limiterOp, check_credentials(get_device_json(r).value))

ApplyLimiterOp(limiterOp, l) ==
    CASE limiterOp = "record_success" -> record_success(l)
      [] limiterOp = "record_rate_limit" -> record_rate_limit(l)
      [] limiterOp = "reset_cycle" -> reset_cycle(l)
      [] OTHER -> l

-----------------------------------------------------------------------------
(* The decoders of a device payload.  A JSON scalar is a number, a string  *)
(* (a character sequence) or null; int() and str() are computed.           *)

Num(n) == [t |-> "num", n |-> n, s |-> <<>>]
Str(chars) == [t |-> "str", n |-> 0, s |-> chars]
Null == [t |-> "null", n |-> 0, s |-> <<>>]

DigitChars == <<"0", "1", "2", "3", "4", "5", "6", "7", "8", "9">>
IsDigit(ch) == \E d \in 1..Len(DigitChars) : DigitChars[d] = ch
DigitValue(ch) == (CHOOSE d \in 1..Len(DigitChars) : DigitChars[d] = ch) - 1

RECURSIVE ParseDigits(_, _)
ParseDigits(chars, acc) ==
    IF chars = <<>> THEN acc
    ELSE ParseDigits(Tail(chars), 10 * acc + DigitValue(Head(chars)))

(* int(v): the number, or the exception raised *)
IntOf(v) ==
    CASE v.t = "num" -> [ex |-> "", n |-> v.n]
      [] v.t = "null" -> [ex |-> "TypeError", n |-> 0]
      [] v.t = "str" ->
             IF v.s # <<>> /\ \A i \in 1..Len(v.s) : IsDigit(v.s[i])
             THEN [ex |-> "", n |-> ParseDigits(v.s, 0)]
             ELSE [ex |-> "ValueError", n |-> 0]

RECURSIVE FormatDigits(_)
FormatDigits(n) ==
    IF n < 10 THEN <<DigitChars[n + 1]>>
    ELSE Append(FormatDigits(n \div 10), DigitChars[(n % 10) + 1])

(* str(v) *)
StrOf(v) ==
    CASE v.t = "str" -> v.s
      [] v.t = "null" -> <<"N", "o", "n", "e">>
      [] v.t = "num" -> IF v.n < 0 THEN <<"-">> \o FormatDigits(0 - v.n) ELSE FormatDigits(v.n)

(* What a decoder hands back: the list it returns, or the exception that   *)
(* leaves it.                                                              *)
Returns(list) == [raised |-> "", list |-> list]
Raises(ex) == [raised |-> ex, list |-> <<>>]

(* The decoder applied and what it handed back *)
Decoded(fn, out) == [fn |-> fn, out |-> out]
NotDecoded == Decoded("", Returns(<<>>))

(* A name taken from a label array, or generated: f"Zone {n}" *)
Label(chars) == [gen |-> "", n |-> 0, s |-> chars]
Generated(prefix, n) == [gen |-> prefix, n |-> n, s |-> <<>>]
PoweredBy(key) == [gen |-> "Powered by", n |-> 0, s |-> <<key>>]

(* last_changed: None, or the stamp (ms) as a display string, moved by     *)
(* `hours` hours                                                           *)
NoStamp == [none |-> TRUE, ms |-> 0, hours |-> 0]
Stamp(ms, hours) == [none |-> FALSE, ms |-> ms, hours |-> hours]

(* lines 349-360 and 436-446 *)
LastChanged(olarm_state, zone, hours) ==
    LET stamps == IF "zonesStamp" \in olarm_state.keys THEN olarm_state.zonesStamp ELSE <<>>
    IN  IF zone < Len(stamps) /\ IntOf(stamps[zone + 1]).ex = ""
        THEN Stamp(IntOf(stamps[zone + 1]).n, hours)
        ELSE NoStamp

(* A zone test that compares the character as it is *)
ZoneStateAsWritten(olarm_state, zone, letter) ==
    LET zones == IF "zones" \in olarm_state.keys THEN olarm_state.zones ELSE <<>>
    IN  IF zone < Len(zones) /\ StrOf(zones[zone + 1]) = <<letter>>
        THEN "on" ELSE "off"

(* lines 344-347 and 431-434 *)
ZoneState(olarm_state, zone, letter) ==
    LET zones == IF "zones" \in olarm_state.keys THEN olarm_state.zones ELSE <<>>
    IN  IF zone < Len(zones) /\ lower(StrOf(zones[zone + 1])) = <<letter>>
        THEN "on" ELSE "off"

(* lines 362-367 and 448-452 *)
ZoneName(olarm_zones, zone) ==
    LET labels == IF "zonesLabels" \in olarm_zones.keys THEN olarm_zones.zonesLabels ELSE <<>>
    IN  IF zone < Len(labels) /\ labels[zone + 1].t = "str"
        THEN Label(labels[zone + 1].s)
        ELSE Generated("Zone", zone + 1)

(* line 368 *)
ZoneType(olarm_zones, zone) ==
    LET types == IF "zonesTypes" \in olarm_zones.keys THEN olarm_zones.zonesTypes ELSE <<>>
    IN  IF zone < Len(types) THEN types[zone + 1] ELSE 0

(* lines 381-386: the power map, or the one made of the legacy fields *)
PowerMap(olarm_state) ==
    LET power == IF "power" \in olarm_state.keys THEN olarm_state.power ELSE <<>>
    IN  IF power = <<>> /\ "powerAC" \in olarm_state.keys
        THEN <<[key |-> "AC",
                value |-> Num(IF olarm_state.powerAC = Str(TextOk) THEN 1 ELSE 0)],
               [key |-> "Batt",
                value |-> Num(IF "powerBattery" \in olarm_state.keys
                                 /\ olarm_state.powerBattery = Str(TextOk) THEN 1 ELSE 0)]>>
        ELSE power

(* lines 387-408: the loop over the power map, from zone number `zone` on *)
RECURSIVE PowerRecords(_, _, _)
PowerRecords(power, zone, data) ==
    IF power = <<>> THEN Returns(data)
    ELSE LET key == Head(power).key
             value == IntOf(Head(power).value)
         IN  IF value.ex # "" THEN Raises(value.ex)
             ELSE PowerRecords(Tail(power), zone + 1,
                      Append(data,
                          [name |-> PoweredBy(IF key = "Batt" THEN "Battery" ELSE key),
                           state |-> IF value.n = 1 THEN "on" ELSE "off",
                           last_changed |-> NoStamp,
                           type |-> IF key = "Batt" THEN 1001 ELSE 1000,
                           zone_number |-> zone]))

(* lines 330-416 *)
get_sensor_states(devices_json) ==
    IF ~({"deviceState", "deviceProfile"} \subseteq devices_json.keys) THEN Raises("KeyError")
    ELSE LET olarm_state == devices_json.deviceState
             olarm_zones == devices_json.deviceProfile
         IN  IF "zonesLimit" \notin olarm_zones.keys THEN Returns(<<>>)
             ELSE IF olarm_zones.zonesLimit.t # "num" THEN Raises("TypeError")
             ELSE LET limit == olarm_zones.zonesLimit.n
                      data == [i \in 1..limit |->
                                  [name |-> ZoneName(olarm_zones, i - 1),
                                   state |-> ZoneState(olarm_state, i - 1, "a"),
                                   last_changed |-> LastChanged(olarm_state, i - 1, 0),
                                   type |-> ZoneType(olarm_zones, i - 1),
                                   zone_number |-> i - 1]]
                  IN  IF limit <= 0 THEN Raises("UnboundLocalError")
                      ELSE PowerRecords(PowerMap(olarm_state), limit, data)

(* lines 418-469 *)
get_sensor_bypass_states(devices_json) ==
    IF ~({"deviceState", "deviceProfile"} \subseteq devices_json.keys) THEN Raises("KeyError")
    ELSE LET olarm_state == devices_json.deviceState
             olarm_zones == devices_json.deviceProfile
         IN  IF "zonesLimit" \notin olarm_zones.keys THEN Returns(<<>>)
             ELSE IF olarm_zones.zonesLimit.t # "num" THEN Raises("TypeError")
             ELSE Returns([i \in 1..olarm_zones.zonesLimit.n |->
                              [name |-> ZoneName(olarm_zones, i - 1),
                               state |-> ZoneState(olarm_state, i - 1, "b"),
                               last_changed |-> LastChanged(olarm_state, i - 1, 2),
                               zone_number |-> i - 1]])

(* lines 471-509 *)
get_panel_states(devices_json) ==
    IF ~({"deviceState", "deviceProfile"} \subseteq devices_json.keys) THEN Raises("KeyError")
    ELSE LET olarm_state == devices_json.deviceState
             zones == devices_json.deviceProfile
             olarm_zones == IF "areasLabels" \in zones.keys THEN zones.areasLabels ELSE <<>>
             area_count == IF "areasLimit" \in zones.keys
                           THEN zones.areasLimit ELSE Num(Len(olarm_zones))
             areas == IF "areas" \in olarm_state.keys THEN olarm_state.areas ELSE <<>>
             emitted == { n \in 0..(area_count.n - 1) : Len(areas) > n }
             Area(n) == [name |-> IF n < Len(olarm_zones) /\ olarm_zones[n + 1] # Str(<<>>)
                                  THEN Label(StrOf(olarm_zones[n + 1]))
                                  ELSE Generated("Area", n + 1),
                         state |-> areas[n + 1],
                         area_number |-> n + 1]
         IN  IF area_count.t # "num" THEN Raises("TypeError")
             ELSE Returns([i \in 1..Cardinality(emitted) |-> Area(i - 1)])

(* A PGM number that counts the records emitted so far *)
pgm_number_of_position(i, pgms) == Len(pgms) + 1

(* line 564: number = i + 1 *)
pgm_number(i, pgms) == i + 1

(* lines 539-585: the loop of get_pgm_zones from index i on *)
RECURSIVE PgmRecords(_, _, _, _, _, _)
PgmRecords(i, pgm_limit, pgm_state, pgm_labels, pgm_setup, pgms) ==
    IF i >= pgm_limit THEN Returns(pgms)
    ELSE LET state == i < Len(pgm_state) /\ lower(StrOf(pgm_state[i + 1])) = <<"a">>
             name == IF i < Len(pgm_labels) THEN pgm_labels[i + 1] ELSE Null
             setup_val == IF i < Len(pgm_setup) THEN pgm_setup[i + 1] ELSE Str(<<>>)
             setup_str == IF setup_val.t = "null" THEN <<>> ELSE StrOf(setup_val)
         IN  IF setup_val = Str(<<>>)
             THEN PgmRecords(i + 1, pgm_limit, pgm_state, pgm_labels, pgm_setup, pgms)
             ELSE PgmRecords(i + 1, pgm_limit, pgm_state, pgm_labels, pgm_setup,
                      Append(pgms,
                          [name |-> IF i < Len(pgm_labels) /\ name # Str(<<>>)
                                    THEN Label(StrOf(name))
                                    ELSE Generated("PGM", i + 1),
                           enabled |-> Len(setup_str) > 0 /\ setup_str[1] = "1",
                           pulse |-> Len(setup_str) > 2 /\ setup_str[3] = "1",
                           state |-> state,
                           pgm_number |-> pgm_number(i, pgms)]))

(* lines 511-585 *)
get_pgm_zones(devices_json) ==
    IF "deviceProfile" \notin devices_json.keys THEN Returns(<<>>)
    ELSE LET profile == devices_json.deviceProfile
             state_obj == devices_json.deviceState
             pgm_state == IF "deviceState" \in devices_json.keys /\ "pgm" \in state_obj.keys
                          THEN state_obj.pgm ELSE <<>>
             pgm_labels == IF "pgmLabels" \in profile.keys THEN profile.pgmLabels ELSE <<>>
             pgm_setup == IF "pgmControl" \in profile.keys THEN profile.pgmControl ELSE <<>>
             given == IF "pgmLimit" \in profile.keys /\ profile.pgmLimit \notin {Null, Str(<<>>)}
                      THEN profile.pgmLimit ELSE Num(0)
             pgm_limit == IF given = Num(0) THEN Num(Len(pgm_labels)) ELSE given
         IN  IF IntOf(pgm_limit).ex # "" THEN Raises(IntOf(pgm_limit).ex)
             ELSE PgmRecords(0, IntOf(pgm_limit).n, pgm_state, pgm_labels, pgm_setup, <<>>)

(* lines 609-636: the loop of get_ukey_zones from index i on.  An index    *)
(* beyond ukeysControl or ukeysLabels raises IndexError, which the except  *)
(* of line 634 answers with an empty list.                                 *)
RECURSIVE UkeyRecords(_, _, _, _, _)
UkeyRecords(i, ukey_limit, ukey_state, ukey_labels, ukeys) ==
    IF i >= ukey_limit THEN Returns(ukeys)
    ELSE IF i >= Len(ukey_state) THEN Returns(<<>>)
    ELSE IF IntOf(ukey_state[i + 1]).ex # "" THEN Raises(IntOf(ukey_state[i + 1]).ex)
    ELSE IF i >= Len(ukey_labels) THEN Returns(<<>>)
    ELSE UkeyRecords(i + 1, ukey_limit, ukey_state, ukey_labels,
             Append(ukeys,
                 [name |-> IF ukey_labels[i + 1] = Str(<<>>)
                           THEN Generated("Ukey", i + 1)
                           ELSE Label(StrOf(ukey_labels[i + 1])),
                  state |-> IntOf(ukey_state[i + 1]).n = 1,
                  ukey_number |-> i + 1]))

(* get_ukey_zones without the test of lines 594-607: a missing key leaves  *)
(* the function as KeyError                                                *)
get_ukey_zones_unguarded(devices_json) ==
    IF "deviceProfile" \notin devices_json.keys THEN Raises("KeyError")
    ELSE LET profile == devices_json.deviceProfile
         IN  IF ~({"ukeysLabels", "ukeysLimit", "ukeysControl"} \subseteq profile.keys)
             THEN Raises("KeyError")
             ELSE IF profile.ukeysLimit.t # "num" THEN Raises("TypeError")
             ELSE UkeyRecords(0, profile.ukeysLimit.n, profile.ukeysControl,
                              profile.ukeysLabels, <<>>)

(* lines 587-636 *)
get_ukey_zones(devices_json) ==
    IF "deviceProfile" \notin devices_json.keys THEN Returns(<<>>)
    ELSE LET profile == devices_json.deviceProfile
         IN  IF ~({"ukeysLabels", "ukeysLimit", "ukeysControl"} \subseteq profile.keys)
             THEN Returns(<<>>)
             ELSE IF profile.ukeysLimit.t # "num" THEN Raises("TypeError")
             ELSE UkeyRecords(0, profile.ukeysLimit.n, profile.ukeysControl,
                              profile.ukeysLabels, <<>>)

-----------------------------------------------------------------------------
(* OlarmRateLimiter.wait_for_slot, cut at its two awaits.  Each piece      *)
(* gives the caller's next position, the seconds it sleeps and the limiter.*)

Position(pc, sleep, l) == [pc |-> pc, sleep |-> sleep, limiter |-> l]

(* lines 89-90 *)
slot_taken(l) == Position("request", 0, TakeSlot(l))

(* A gap check that records the request time before it sleeps *)
gap_check_writes_early(l) ==
    IF GapWait(l) > 0
    THEN Position("gap_sleep", GapWait(l), TakeSlot(l))
    ELSE slot_taken(l)

(* lines 82-90, up to the await of line 87 *)
gap_check(l) ==
    IF GapWait(l) > 0
    THEN Position("gap_sleep", GapWait(l), l)
    ELSE slot_taken(l)

(* A gap wait that looks at the gap again when its sleep is over *)
after_gap_sleep_checks_again(l) == gap_check(l)

(* lines 87-90: after the await of line 87 the slot is taken, with no      *)
(* second look at the gap, the backoff window or the breaker               *)
after_gap_sleep(l) == slot_taken(l)

(* A wait_for_slot without the circuit breaker of lines 66-71 *)
wait_for_slot_without_breaker(l) ==
    IF is_backed_off(l) THEN Position("backoff_sleep", backoff_remaining(l), l)
    ELSE gap_check(l)

(* lines 65-90, up to the first await reached *)
wait_for_slot(l) ==
    IF TooManyConsecutive(l) THEN Position("denied", 0, l)
    ELSE IF is_backed_off(l) THEN Position("backoff_sleep", backoff_remaining(l), l)
    ELSE gap_check(l)

-----------------------------------------------------------------------------
(* OlarmApi.__init__, lines 152-155 *)

(* A constructor that never looks the key up *)
ConstructFresh(c, api_key) ==
    /\ apis[c] = NoApi
    /\ limiters' = Append(limiters, OlarmRateLimiter)
    /\ lastOp' = Append(lastOp, "none")
    /\ _rate_limiters' = [_rate_limiters EXCEPT ![api_key] = Len(limiters) + 1]
    /\ apis' = [apis EXCEPT ![c] =
                    OlarmApi(api_key, Len(limiters) + 1)]
    /\ UNCHANGED <<calls, event, started, argument, result>>

Construct(c, api_key) ==
    /\ apis[c] = NoApi
    /\ IF _rate_limiters[api_key] = 0
       THEN /\ limiters' = Append(limiters, OlarmRateLimiter)
            /\ lastOp' = Append(lastOp, "none")
            /\ _rate_limiters' = [_rate_limiters EXCEPT ![api_key] = Len(limiters) + 1]
       ELSE UNCHANGED <<limiters, lastOp, _rate_limiters>>
    /\ apis' = [apis EXCEPT ![c] =
                    OlarmApi(api_key, _rate_limiters'[api_key])]
    /\ UNCHANGED <<calls, event, started, argument, result>>

-----------------------------------------------------------------------------
(* The client operations *)

InProgress(op, pc, sleep, id) == [op |-> op, pc |-> pc, sleep |-> sleep, limiter |-> id]

(* What the step just taken did: its kind, the position `at` of the call  *)
(* that took it, the operation, the value handed back to the caller and    *)
(* the limiter method applied while handling a response; for a response    *)
(* handled, the response and the area argument as well.                    *)
Event(kind, at, op, value, limiterOp) ==
    [kind |-> kind, at |-> at, op |-> op, value |-> value, limiterOp |-> limiterOp,
     response |-> NoResponse, area |-> 0]
NoEvent == Event("", "", "", Nothing, "none")

Add(bag, k) == bag (+) SetToBag({k})
Remove(bag, k) == bag (-) SetToBag({k})

(* The caller of operation op, out of the bag `others`, moves to position  *)
(* p; a denied call returns at once.                                       *)
Proceed(others, op, id, p, at) ==
    /\ limiters' = [limiters EXCEPT ![id] = p.limiter]
    /\ IF p.pc = "denied"
       THEN /\ calls' = others
            /\ event' = Event("denied", at, op, Denied(op), "none")
       ELSE /\ calls' = Add(others, InProgress(op, p.pc, p.sleep, id))
            /\ event' = Event(IF at = "idle" THEN "call" ELSE "wake", at, op, Nothing, "none")
    /\ UNCHANGED <<_rate_limiters, apis, lastOp, argument, result>>

(* A client operation is called and runs to its first await. *)
Call(c, op) ==
    /\ apis[c] # NoApi
    /\ BagCardinality(calls) < MaxCalls
    /\ started < MaxStarted
    /\ started' = started + 1
    /\ Proceed(calls, op, apis[c]._rate_limiter,
               wait_for_slot(limiters[apis[c]._rate_limiter]), "idle")

(* asyncio.sleep(wait_time) of line 80 is over. *)
WakeFromBackoff(k) ==
    /\ UNCHANGED started
    /\ BagIn(k, calls)
    /\ k.pc = "backoff_sleep"
    /\ k.sleep = 0
    /\ Proceed(Remove(calls, k), k.op, k.limiter, gap_check(limiters[k.limiter]), k.pc)

(* asyncio.sleep(gap_wait) of line 87 is over. *)
WakeFromGap(k) ==
    /\ UNCHANGED started
    /\ BagIn(k, calls)
    /\ k.pc = "gap_sleep"
    /\ k.sleep = 0
    /\ Proceed(Remove(calls, k), k.op, k.limiter, after_gap_sleep(limiters[k.limiter]), k.pc)

(* The response of a request in flight arrives and is handled. *)
Respond(k, r, area) ==
    /\ UNCHANGED started
    /\ BagIn(k, calls)
    /\ k.pc = "request"
    /\ k.op # "get_changed_by_json" => area = 1
    /\ LET out == Handle(k.op, r, area)
       IN  /\ limiters' = [limiters EXCEPT ![k.limiter] = ApplyLimiterOp(out.limiterOp, @)]
           /\ lastOp' = [lastOp EXCEPT ![k.limiter] =
                            IF out.limiterOp = "none" THEN @ ELSE out.limiterOp]
           /\ event' = [Event("return", k.pc, k.op, out.value, out.limiterOp)
                            EXCEPT !.response = r, !.area = area]
    /\ calls' = Remove(calls, k)
    /\ UNCHANGED <<_rate_limiters, apis, argument, result>>

(* The request fails with APIClientConnectorError. *)
ConnectorError(k) ==
    /\ UNCHANGED started
    /\ BagIn(k, calls)
    /\ k.pc = "request"
    /\ event' = Event("return", k.pc, k.op, ConnectorFailed(k.op), "none")
    /\ calls' = Remove(calls, k)
    /\ UNCHANGED <<limiters, _rate_limiters, apis, lastOp, argument, result>>

(* The request raises asyncio.TimeoutError. *)
Timeout(k) ==
    /\ UNCHANGED started
    /\ BagIn(k, calls)
    /\ k.pc = "request"
    /\ event' = Event("return", k.pc, k.op, TimedOut(k.op), "none")
    /\ calls' = Remove(calls, k)
    /\ UNCHANGED <<limiters, _rate_limiters, apis, lastOp, argument, result>>

(* The task running the call is cancelled at one of its awaits. *)
Cancel(k) ==
    /\ UNCHANGED started
    /\ BagIn(k, calls)
    /\ event' = Event("cancel", k.pc, k.op, Raised("CancelledError"), "none")
    /\ calls' = Remove(calls, k)
    /\ UNCHANGED <<limiters, _rate_limiters, apis, lastOp, argument, result>>

(* The host starts a new update cycle: reset_cycle() on a limiter. *)
ResetCycle(id) ==
    /\ UNCHANGED started
    /\ id \in 1..Len(limiters)
    /\ limiters' = [limiters EXCEPT ![id] = reset_cycle(@)]
    /\ lastOp' = [lastOp EXCEPT ![id] = "reset_cycle"]
    /\ event' = Event("reset", "", "", Nothing, "reset_cycle")
    /\ UNCHANGED <<_rate_limiters, apis, calls, argument, result>>

(* The durations after which something is due: the end of a backoff        *)
(* window, of a minimum-gap window, of a sleep.                            *)
Due ==
    { limiters[id].backoff_left : id \in 1..Len(limiters) }
    \cup { GapWait(limiters[id]) : id \in 1..Len(limiters) }
    \cup { k.sleep : k \in BagToSet(calls) }

RECURSIVE SleepLess(_, _)
SleepLess(bag, d) ==
    IF BagToSet(bag) = {} THEN EmptyBag
    ELSE LET k == CHOOSE x \in BagToSet(bag) : TRUE
             rest == [x \in BagToSet(bag) \ {k} |-> bag[x]]
             moved == SleepLess(rest, d)
             k2 == [k EXCEPT !.sleep = Max(0, @ - d)]
         IN  [x \in BagToSet(moved) \cup {k2} |->
                  (IF x \in BagToSet(moved) THEN moved[x] ELSE 0)
                  + (IF x = k2 THEN bag[k] ELSE 0)]

(* d seconds pass.  Time is sampled: it moves by one second while a        *)
(* minimum-gap window is open, and otherwise to the next instant at which  *)
(* something is due.  A sleeper that is due need not run before time moves *)
(* on: a sleep may end late.                                               *)
Tick(d) ==
    /\ UNCHANGED started
    /\ d > 0
    /\ \/ d \in Due /\ \A e \in Due : e > 0 => d <= e
       \/ d = 1 /\ \E id \in 1..Len(limiters) : GapWait(limiters[id]) > 0
    /\ limiters' = [id \in 1..Len(limiters) |-> Later(limiters[id], d)]
    /\ calls' = SleepLess(calls, d)
    /\ event' = Event("tick", "", "", Nothing, "none")
    /\ UNCHANGED <<_rate_limiters, apis, lastOp, argument, result>>

-----------------------------------------------------------------------------
(* Specifications *)

(* No function has been applied on its own. *)
NoArgument == [changes |-> <<>>, area |-> 0]

(* No OlarmApi object exists yet. *)
InitRegistry ==
    /\ limiters = <<>>
    /\ lastOp = <<>>
    /\ _rate_limiters = [k \in ApiKeys |-> 0]
    /\ apis = [c \in Apis |-> NoApi]
    /\ calls = EmptyBag
    /\ started = 0
    /\ event = NoEvent
    /\ argument = NoArgument
    /\ result = Nothing

NextRegistry == \E c \in Apis, key \in ApiKeys : Construct(c, key)

SpecRegistry == InitRegistry /\ [][NextRegistry]_vars

(* The clients of NumClients devices have been constructed with one key. *)
Init ==
    /\ limiters = <<OlarmRateLimiter>>
    /\ lastOp = <<"none">>
    /\ _rate_limiters = [k \in ApiKeys |-> IF k = SharedKey THEN 1 ELSE 0]
    /\ apis = [c \in Apis |-> IF c \in Clients
                              THEN OlarmApi(SharedKey, 1)
                              ELSE NoApi]
    /\ calls = EmptyBag
    /\ started = 0
    /\ event = NoEvent
    /\ argument = NoArgument
    /\ result = Nothing

Next ==
    \/ \E c \in Clients, op \in Ops : Call(c, op)
    \/ \E k \in BagToSet(calls) : WakeFromBackoff(k)
    \/ \E k \in BagToSet(calls) : WakeFromGap(k)
    \/ \E k \in BagToSet(calls), r \in Responses, area \in Areas : Respond(k, r, area)
    \/ \E k \in BagToSet(calls) : ConnectorError(k)
    \/ \E k \in BagToSet(calls) : Timeout(k)
    \/ \E k \in BagToSet(calls) : Cancel(k)
    \/ ResetCycle(1)
    \/ \E d \in Due \cup {1} : Tick(d)

Spec == Init /\ [][Next]_vars

(* The limiter under one operation and one response of each kind: a 429,   *)
(* a JSON body, a text body that is neither.  The limiter does not see     *)
(* which operation holds a slot, so its own properties are checked here,   *)
(* with more calls in progress than Spec affords.                          *)
LimiterOps == {"get_device_json"}

LimiterResponses ==
    { TextResponse(429, TextTooMany),
      JsonResponse(200, [keys |-> {"data"}, actionStatus |-> <<>>, changes |-> <<>>]),
      TextResponse(502, TextBadGateway) }

NextLimiter ==
    \/ \E c \in Clients, op \in LimiterOps : Call(c, op)
    \/ \E k \in BagToSet(calls) : WakeFromBackoff(k)
    \/ \E k \in BagToSet(calls) : WakeFromGap(k)
    \/ \E k \in BagToSet(calls), r \in LimiterResponses : Respond(k, r, 1)
    \/ \E k \in BagToSet(calls) : ConnectorError(k)
    \/ \E k \in BagToSet(calls) : Timeout(k)
    \/ \E k \in BagToSet(calls) : Cancel(k)
    \/ ResetCycle(1)
    \/ \E d \in Due \cup {1} : Tick(d)

SpecLimiter == Init /\ [][NextLimiter]_vars

(* The event loop: time passes, and a sleep that is over ends in the end.  *)
SpecLimiterFair ==
    /\ SpecLimiter
    /\ WF_vars(\E d \in Due \cup {1} : Tick(d))
    /\ WF_vars(\E k \in BagToSet(calls) : WakeFromBackoff(k))
    /\ WF_vars(\E k \in BagToSet(calls) : WakeFromGap(k))

(* Callers of send_action() under one key: a 429, the JSON responses of an *)
(* accepted and of a rejected action, and a text body.                     *)
ActionOps == {"send_action"}

ActionResponses ==
    { TextResponse(429, TextTooMany), TextResponse(200, TextBadGateway) }
    \cup { JsonResponse(200, [keys |-> ActionKeys, actionStatus |-> st, changes |-> <<>>]) :
               st \in {TextOkUpper, TextFail} }
    \cup { JsonResponse(200, [keys |-> {"actionStatus"}, actionStatus |-> TextFail,
                              changes |-> <<>>]) }

NextActions ==
    \/ \E c \in Clients, op \in ActionOps : Call(c, op)
    \/ \E k \in BagToSet(calls) : WakeFromBackoff(k)
    \/ \E k \in BagToSet(calls) : WakeFromGap(k)
    \/ \E k \in BagToSet(calls), r \in ActionResponses : Respond(k, r, 1)
    \/ \E k \in BagToSet(calls) : ConnectorError(k)
    \/ \E k \in BagToSet(calls) : Timeout(k)
    \/ \E k \in BagToSet(calls) : Cancel(k)
    \/ ResetCycle(1)
    \/ \E d \in Due \cup {1} : Tick(d)

SpecActions == Init /\ [][NextActions]_vars

(* get_changed_by_json() applied to a status-200 JSON response that holds  *)
(* the action list of `argument`, for its area.                            *)
ChangeUsers == {"Ann", "Bob"}
ChangeTimes == {0, 5, 7}
ChangeCmds == {"area-arm", "zone-bypass"}
ChangeEntries ==
    { Change(user, created, cmd, num) :
          user \in ChangeUsers, created \in ChangeTimes, cmd \in ChangeCmds, num \in Areas }
ChangeLists == UNION { [1..n -> ChangeEntries] : n \in 0..MaxChanges }

ActionsResponse(changes) ==
    JsonResponse(200, [keys |-> {}, actionStatus |-> <<>>, changes |-> changes])

InitChanges ==
    /\ limiters = <<OlarmRateLimiter>>
    /\ lastOp = <<"none">>
    /\ _rate_limiters = [k \in ApiKeys |-> IF k = SharedKey THEN 1 ELSE 0]
    /\ apis = [c \in Apis |-> IF c \in Clients
                              THEN OlarmApi(SharedKey, 1)
                              ELSE NoApi]
    /\ calls = EmptyBag
    /\ started = 0
    /\ event = NoEvent
    /\ argument \in [changes : ChangeLists, area : Areas]
    /\ result = Nothing

ApplyChangedBy ==
    /\ result = Nothing
    /\ result' = get_changed_by_json(ActionsResponse(argument.changes), argument.area).value
    /\ UNCHANGED <<limiters, _rate_limiters, apis, calls, event, started, lastOp, argument>>

NextChanges == ApplyChangedBy

SpecChanges == InitChanges /\ [][NextChanges]_vars

(* The loop index at which a decoder raises IndexError, -1 when it raises  *)
(* none.  get_ukey_zones subscripts ukeysControl and ukeysLabels at every  *)
(* index below ukeysLimit (lines 613-614); the other decoders test the     *)
(* length before every subscript (lines 344, 350, 364, 368, 431, 437, 449, *)
(* 495, 542, 549, 554).                                                    *)
FirstIndexError(fn, devices_json) ==
    IF fn # "get_ukey_zones" \/ "deviceProfile" \notin devices_json.keys THEN -1
    ELSE LET profile == devices_json.deviceProfile
             short == Min(Len(profile.ukeysControl), Len(profile.ukeysLabels))
         IN  IF /\ {"ukeysLabels", "ukeysLimit", "ukeysControl"} \subseteq profile.keys
                /\ profile.ukeysLimit.t = "num"
                /\ short < profile.ukeysLimit.n
                /\ \A i \in 1..Min(short + 1, Len(profile.ukeysControl)) :
                       IntOf(profile.ukeysControl[i]).ex = ""
             THEN short
             ELSE -1

(* The decoders applied to a device payload.  A payload is built from the  *)
(* empty deviceState and deviceProfile by putting in fields: each field is *)
(* absent or holds one of a few values, among them short arrays, limits    *)
(* that are 0 or strings, values that are no numbers.                      *)
Decoders ==
    {"get_sensor_states", "get_sensor_bypass_states", "get_panel_states", "get_pgm_zones",
     "get_ukey_zones"}

Decode(fn, devices_json) ==
    CASE fn = "get_sensor_states" -> get_sensor_states(devices_json)
      [] fn = "get_sensor_bypass_states" -> get_sensor_bypass_states(devices_json)
      [] fn = "get_panel_states" -> get_panel_states(devices_json)
      [] fn = "get_pgm_zones" -> get_pgm_zones(devices_json)
      [] fn = "get_ukey_zones" -> get_ukey_zones(devices_json)

EmptyState ==
    [keys |-> {}, zones |-> <<>>, zonesStamp |-> <<>>, power |-> <<>>, powerAC |-> Null,
     powerBattery |-> Null, areas |-> <<>>, pgm |-> <<>>]
EmptyProfile ==
    [keys |-> {}, zonesLimit |-> Num(0), zonesLabels |-> <<>>, zonesTypes |-> <<>>,
     areasLabels |-> <<>>, areasLimit |-> Num(0), pgmLabels |-> <<>>, pgmLimit |-> Num(0),
     pgmControl |-> <<>>, ukeysLabels |-> <<>>, ukeysLimit |-> Num(0), ukeysControl |-> <<>>]

Absent == [has |-> FALSE, v |-> <<>>]
Has(v) == [has |-> TRUE, v |-> v]
Put(object, field, choice) ==
    IF choice.has
    THEN [object EXCEPT ![field] = choice.v, !.keys = @ \cup {field}]
    ELSE object

Payload(state, profile) ==
    [keys |-> {"deviceState", "deviceProfile"}, deviceState |-> state, deviceProfile |-> profile]

Limits == {Absent, Has(Str(<<"2">>)), Has(Str(<<"x">>))} \cup { Has(Num(n)) : n \in 0..MaxLimit }

ZonesAab == <<Str(<<"A">>), Str(<<"a">>), Str(<<"b">>)>>

(* The legacy power fields: missing, "ok" or "low" *)
LegacyPower == {Absent, Has(Str(TextOk)), Has(Str(<<"l", "o", "w">>))}

ZonePayloads ==
    { Payload(Put(Put(Put(Put(Put(EmptyState, "zones", zones), "zonesStamp", stamps),
                          "power", power), "powerAC", ac), "powerBattery", battery),
              Put(Put(Put(EmptyProfile, "zonesLimit", limit), "zonesLabels", labels),
                  "zonesTypes", types)) :
          zones \in {Absent, Has(<<>>), Has(ZonesAab), Has(<<Str(<<"b">>)>>)},
          stamps \in {Absent, Has(<<Num(1000), Str(<<"x">>)>>)},
          power \in {Absent, Has(<<>>),
                     Has(<<[key |-> "AC", value |-> Num(1)], [key |-> "Batt", value |-> Num(0)]>>),
                     Has(<<[key |-> "AC", value |-> Str(TextOk)]>>)},
          ac \in LegacyPower,
          battery \in LegacyPower,
          limit \in Limits,
          labels \in {Absent, Has(<<Str(<<"D", "o", "o", "r">>), Str(<<>>), Null>>)},
          types \in {Absent, Has(<<1>>)} }

PanelPayloads ==
    { Payload(Put(EmptyState, "areas", areas),
              Put(Put(EmptyProfile, "areasLimit", limit), "areasLabels", labels)) :
          areas \in {Absent, Has(<<"disarm">>), Has(<<"arm", "disarm">>)},
          limit \in Limits,
          labels \in {Absent, Has(<<Str(<<"H", "o", "m", "e">>), Str(<<>>)>>)} }

PgmPayloads ==
    { Payload(Put(EmptyState, "pgm", pgm),
              Put(Put(Put(EmptyProfile, "pgmLimit", limit), "pgmLabels", labels),
                  "pgmControl", control)) :
          pgm \in {Absent, Has(<<Str(<<"a">>), Str(<<"c">>), Str(<<"A">>)>>)},
          limit \in Limits,
          labels \in {Absent, Has(<<Str(<<"G", "a", "t", "e">>), Str(<<>>)>>),
                      Has(<<Str(<<"G", "a", "t", "e">>), Str(<<>>), Str(<<"P", "u", "m", "p">>)>>)},
          control \in {Absent, Has(<<Str(<<"1", "0", "0">>), Str(<<>>), Str(<<"1", "0", "1">>)>>),
                       Has(<<Str(<<"0", "0", "0">>)>>)} }

UkeyPayloads ==
    { Payload(EmptyState,
              Put(Put(Put(EmptyProfile, "ukeysLimit", limit), "ukeysLabels", labels),
                  "ukeysControl", control)) :
          limit \in Limits,
          labels \in {Absent, Has(<<Str(<<"G", "a", "t", "e">>)>>),
                      Has(<<Str(<<"G", "a", "t", "e">>), Str(<<>>), Str(<<"P", "u", "m", "p">>)>>)},
          control \in {Absent, Has(<<>>), Has(<<Num(1)>>), Has(<<Num(1), Str(<<"0">>), Num(1)>>),
                       Has(<<Num(1), Str(<<"x">>)>>)} }

(* Payloads that lack deviceState or deviceProfile altogether *)
BarePayloads ==
    { [keys |-> keys, deviceState |-> EmptyState, deviceProfile |-> EmptyProfile] :
          keys \in {{}, {"deviceState"}, {"deviceProfile"}} }

Payloads == ZonePayloads \cup PanelPayloads \cup PgmPayloads \cup UkeyPayloads \cup BarePayloads

InitDecoders ==
    /\ limiters = <<OlarmRateLimiter>>
    /\ lastOp = <<"none">>
    /\ _rate_limiters = [k \in ApiKeys |-> IF k = SharedKey THEN 1 ELSE 0]
    /\ apis = [c \in Apis |-> IF c \in Clients
                              THEN OlarmApi(SharedKey, 1)
                              ELSE NoApi]
    /\ calls = EmptyBag
    /\ started = 0
    /\ event = NoEvent
    /\ argument \in Payloads
    /\ result = NotDecoded

ApplyDecoder(fn) ==
    /\ result = NotDecoded
    /\ result' = Decoded(fn, Decode(fn, argument))
    /\ UNCHANGED <<limiters, _rate_limiters, apis, calls, event, started, lastOp, argument>>

NextDecoders == \E fn \in Decoders : ApplyDecoder(fn)

SpecDecoders == InitDecoders /\ [][NextDecoders]_vars

-----------------------------------------------------------------------------
(* The list decoders as methods of one OlarmApi object: each keeps its list *)
(* in an attribute of the object and returns that attribute.               *)

MaxPolls == 3

ListDecoders == {"get_sensor_states", "get_sensor_bypass_states", "get_panel_states"}

(* self.data, self.bypass_data, self.panel_data *)
Attribute(fn) ==
    CASE fn = "get_sensor_states" -> "data"
      [] fn = "get_sensor_bypass_states" -> "bypass_data"
      [] fn = "get_panel_states" -> "panel_data"

(* A decoder that goes on with the list of the call before *)
keep_list(held) == held

(* lines 340, 428 and 482: self.data = [] *)
reset_list(held) == <<>>

(* The entries of the power map ahead of the first whose value int()       *)
(* refuses                                                                 *)
RECURSIVE WellFormedPrefix(_)
WellFormedPrefix(power) ==
    IF power = <<>> \/ IntOf(Head(power).value).ex # "" THEN <<>>
    ELSE <<Head(power)>> \o WellFormedPrefix(Tail(power))

(* The records a call has appended to its list when it ends, by return or  *)
(* by an exception: an exception of the power loop comes after the zone    *)
(* records and the power records before it, any other before the first     *)
(* append.                                                                 *)
Appended(fn, devices_json) ==
    LET out == Decode(fn, devices_json)
        state == devices_json.deviceState
    IN  IF out.raised = "" THEN out.list
        ELSE IF fn = "get_sensor_states" /\ "power" \in state.keys
                /\ WellFormedPrefix(state.power) # state.power
             THEN LET ahead == [devices_json EXCEPT
                                    !.deviceState.power = WellFormedPrefix(state.power)]
                  IN  get_sensor_states(ahead).list
             ELSE <<>>

(* Payloads of consecutive polls: two well-formed ones, one without        *)
(* zonesLimit (the decode aborts early), one with zonesLimit 0, one whose  *)
(* power map holds a value that is no number, one without deviceState and  *)
(* deviceProfile                                                           *)
PollPayloads ==
    { Payload(Put(Put(Put(EmptyState, "zones", Has(ZonesAab)), "areas", Has(<<"arm", "disarm">>)),
                  "power", Has(<<[key |-> "AC", value |-> Num(1)]>>)),
              Put(Put(EmptyProfile, "zonesLimit", Has(Num(2))), "areasLimit", Has(Num(2)))),
      Payload(Put(Put(EmptyState, "zones", Has(<<Str(<<"b">>)>>)), "areas", Has(<<"disarm">>)),
              Put(Put(EmptyProfile, "zonesLimit", Has(Num(1))), "areasLimit", Has(Num(1)))),
      Payload(Put(EmptyState, "zones", Has(ZonesAab)), EmptyProfile),
      Payload(EmptyState, Put(EmptyProfile, "zonesLimit", Has(Num(0)))),
      Payload(Put(EmptyState, "power", Has(<<[key |-> "AC", value |-> Num(1)],
                                             [key |-> "Batt", value |-> Str(TextOk)]>>)),
              Put(EmptyProfile, "zonesLimit", Has(Num(1)))),
      [keys |-> {}, deviceState |-> EmptyState, deviceProfile |-> EmptyProfile] }

InitPolls ==
    /\ limiters = <<OlarmRateLimiter>>
    /\ lastOp = <<"none">>
    /\ _rate_limiters = [k \in ApiKeys |-> IF k = SharedKey THEN 1 ELSE 0]
    /\ apis = [c \in Apis |-> IF c \in Clients THEN OlarmApi(SharedKey, 1) ELSE NoApi]
    /\ calls = EmptyBag
    /\ started = 0
    /\ event = NoEvent
    /\ argument = NoArgument
    /\ result = NotDecoded

(* One call of a list decoder on object c.  The event keeps whether the    *)
(* object's list was "fresh" (empty) or "used" (holding the records of an  *)
(* earlier call) when the call began.                                      *)
Poll(c, fn, devices_json) ==
    /\ apis[c] # NoApi
    /\ started < MaxPolls
    /\ LET held == apis[c][Attribute(fn)]
           entered == {"deviceState", "deviceProfile"} \subseteq devices_json.keys
           out == Decode(fn, devices_json)
       IN  /\ result' = Decoded(fn, IF out.raised = ""
                                    THEN Returns(reset_list(held) \o out.list)
                                    ELSE out)
           /\ apis' = IF entered
                      THEN [apis EXCEPT ![c][Attribute(fn)] =
                                reset_list(held) \o Appended(fn, devices_json)]
                      ELSE apis
           /\ event' = Event("poll", IF held = <<>> THEN "fresh" ELSE "used", fn, Nothing,
                             "none")
    /\ argument' = devices_json
    /\ started' = started + 1
    /\ UNCHANGED <<limiters, _rate_limiters, calls, lastOp>>

NextPolls == \E c \in Clients, fn \in ListDecoders, devices_json \in PollPayloads :
                 Poll(c, fn, devices_json)

SpecPolls == InitPolls /\ [][NextPolls]_vars

(* One caller that awaits each call before it makes the next: every       *)
(* operation, check_credentials included, and every response.              *)
ClientOps == Ops \cup {"check_credentials"}

CallAlone(c, op) ==
    /\ calls = EmptyBag
    /\ Call(c, op)

NextClient ==
    \/ \E c \in Clients, op \in ClientOps : CallAlone(c, op)
    \/ \E k \in BagToSet(calls) : WakeFromBackoff(k)
    \/ \E k \in BagToSet(calls) : WakeFromGap(k)
    \/ \E k \in BagToSet(calls), r \in Responses, area \in Areas : Respond(k, r, area)
    \/ \E k \in BagToSet(calls) : ConnectorError(k)
    \/ \E k \in BagToSet(calls) : Timeout(k)
    \/ \E k \in BagToSet(calls) : Cancel(k)
    \/ ResetCycle(1)
    \/ \E d \in Due \cup {1} : Tick(d)

SpecClient == Init /\ [][NextClient]_vars

-----------------------------------------------------------------------------
(* Properties *)

(* The limiter of the shared key *)
Shared == limiters[1]

(* The requests in flight: the calls that hold a slot *)
Requests(bag) ==
    LET holding == {k \in BagToSet(bag) : k.pc = "request"}
    IN  BagCardinality([k \in holding |-> bag[k]])

(* The step hands a slot to a caller: wait_for_slot() returns True. *)
GrantsSlot == Requests(calls') = Requests(calls) + 1

(* The step is the start of a client call. *)
CallStarts == started' = started + 1

(* The step adds the call k to the calls in progress and changes no other. *)
Adds(k) == calls' = Add(calls, k)

(* C1: any two slots handed out under one key are at least                 *)
(* API_MIN_REQUEST_GAP seconds apart: whenever wait_for_slot() returns     *)
(* True, at least 2 s have elapsed since the previous _last_request_time.  *)
C1_MinGapAcrossDevices ==
    [][GrantsSlot => Shared.elapsed >= API_MIN_REQUEST_GAP]_vars

(* C2: no slot is handed out while the limiter's backoff window is open:   *)
(* whenever wait_for_slot() returns True, time.monotonic() is not earlier  *)
(* than the current _backoff_until.                                        *)
C2_NoSlotDuringBackoff ==
    [][GrantsSlot => Shared.backoff_left = 0]_vars

(* C3: a wait_for_slot() that starts when the consecutive counter is 3 or  *)
(* more returns False at once, without suspending and without writing      *)
(* _last_request_time; one that starts with a smaller counter (after a     *)
(* reset_cycle() or record_success()) is not turned away.                  *)
C3_CircuitBreaker ==
    [][CallStarts =>
          IF Shared._consecutive_429s >= 3
          THEN /\ event'.kind = "denied"
               /\ calls' = calls
               /\ limiters'[1].elapsed = Shared.elapsed
          ELSE /\ event'.kind = "call"
               /\ BagCardinality(calls') = BagCardinality(calls) + 1]_vars

C3_Witness ==
    /\ event.kind = "denied"
    /\ event.op = "get_device_json"
    /\ lastOp[1] = "record_rate_limit"
    /\ Shared._consecutive_429s >= 3

(* C4: a client call started when 3 or more consecutive rate-limited       *)
(* responses are on record issues no HTTP request, leaves the limiter as   *)
(* it is and returns the safe failure value of its operation: an error     *)
(* dict, the default "No User" record, False, the empty list.              *)
C4_PreemptiveSkip ==
    [][CallStarts /\ Shared._consecutive_429s >= 3 =>
          /\ Requests(calls') = Requests(calls)
          /\ calls' = calls
          /\ limiters' = limiters
          /\ lastOp' = lastOp
          /\ event'.op \in Ops
          /\ event'.op = "get_device_json" =>
                 event'.value.kind = "dict" /\ event'.value.tag = "error"
          /\ event'.op = "get_changed_by_json" =>
                 /\ event'.value.kind = "dict"
                 /\ event'.value.item.userFullname = "No User"
                 /\ event'.value.item.actionCreated = 0
          /\ event'.op = "send_action" =>
                 event'.value.kind = "bool" /\ event'.value.tag = "False"
          /\ event'.op = "get_all_devices" =>
                 event'.value.kind = "list" /\ event'.value.tag = "empty"]_vars

C4_Witness ==
    /\ event.kind = "denied"
    /\ event.op = "send_action"
    /\ event.value = Bool(FALSE)
    /\ Shared._consecutive_429s >= 3
    /\ Requests(calls) = 0

(* C5: right after the N-th consecutive record_rate_limit() the backoff    *)
(* window is 60, 120, 240, 300, 300, ... seconds long, as N = 1, 2, 3, 4,  *)
(* 5, ...: min(60 * 2^(N-1), 300), whatever else the limiter holds.        *)
C5_Schedule(n) ==
    CASE n = 1 -> 60
      [] n = 2 -> 120
      [] n = 3 -> 240
      [] OTHER -> 300

C5_BackoffSchedule ==
    [][event'.limiterOp = "record_rate_limit" =>
          /\ limiters'[1]._consecutive_429s = Shared._consecutive_429s + 1
          /\ limiters'[1].backoff_left = C5_Schedule(limiters'[1]._consecutive_429s)]_vars

C5_Witness ==
    /\ event.limiterOp = "record_rate_limit"
    /\ Shared._consecutive_429s = 4
    /\ Shared.backoff_left = 300

(* C6: OlarmApi objects constructed with the same api_key hold the same    *)
(* OlarmRateLimiter, objects constructed with different keys hold          *)
(* different ones, and no key ever has more than one limiter.              *)
Constructed == {c \in Apis : apis[c] # NoApi}

C6_SingletonPerKey ==
    /\ \A a, b \in Constructed :
           (apis[a].api_key = apis[b].api_key) <=> (apis[a]._rate_limiter = apis[b]._rate_limiter)
    /\ \A a \in Constructed : apis[a]._rate_limiter = _rate_limiters[apis[a].api_key]
    /\ Len(limiters) = Cardinality({apis[a].api_key : a \in Constructed})

C6_Witness ==
    /\ Constructed = Apis
    /\ Len(limiters) = 2
    /\ \E a, b \in Apis : a # b /\ apis[a].api_key = apis[b].api_key
    /\ \E a, b \in Apis : apis[a].api_key # apis[b].api_key

(* C7: a wait_for_slot() that starts with no backoff and a counter below 3 *)
(* less than 2 s after the last slot was taken sleeps exactly the rest of  *)
(* the 2 s and writes nothing; when its sleep is over it takes the slot,   *)
(* _last_request_time being the instant of release.  One that starts 2 s   *)
(* or more after the last slot takes the slot without sleeping.            *)
C7_MinGapOneCaller ==
    [][/\ CallStarts /\ Shared._consecutive_429s < 3 /\ Shared.backoff_left = 0 =>
              IF Shared.elapsed < 2
              THEN /\ \E op \in Ops : Adds(InProgress(op, "gap_sleep", 2 - Shared.elapsed, 1))
                   /\ limiters' = limiters
              ELSE /\ \E op \in Ops : Adds(InProgress(op, "request", 0, 1))
                   /\ limiters'[1].elapsed = 0
       /\ event'.kind = "wake" /\ event'.at = "gap_sleep" =>
              /\ \E op \in Ops :
                     /\ BagIn(InProgress(op, "gap_sleep", 0, 1), calls)
                     /\ calls' = Add(Remove(calls, InProgress(op, "gap_sleep", 0, 1)),
                                     InProgress(op, "request", 0, 1))
              /\ limiters'[1].elapsed = 0]_vars

C7_Witness ==
    /\ event.kind = "call"
    /\ Shared.elapsed = 1
    /\ Shared.backoff_left = 0
    /\ \E k \in BagToSet(calls) : k.pc = "gap_sleep" /\ k.sleep = 1

(* C8: record_success() sets the consecutive counter to 0 and changes      *)
(* neither _backoff_until nor _last_request_time; a record_success() that  *)
(* follows a record_success() changes nothing.                             *)
C8_RecordSuccess ==
    [][event'.limiterOp = "record_success" =>
          /\ limiters'[1]._consecutive_429s = 0
          /\ limiters'[1].backoff_left = Shared.backoff_left
          /\ limiters'[1].elapsed = Shared.elapsed
          /\ lastOp[1] = "record_success" => limiters' = limiters]_vars

C8_Witness ==
    /\ event.limiterOp = "record_success"
    /\ Shared._consecutive_429s = 0
    /\ Shared.backoff_left > 0

(* C9: reset_cycle() sets the consecutive counter to 0 and changes neither *)
(* _backoff_until nor _last_request_time; so a wait_for_slot() that starts *)
(* after it inside the backoff window is not turned away, sleeps what is   *)
(* left of the window, and goes on only when that sleep is over.           *)
C9_ResetCycle ==
    [][/\ event'.limiterOp = "reset_cycle" =>
              /\ limiters'[1]._consecutive_429s = 0
              /\ limiters'[1].backoff_left = Shared.backoff_left
              /\ limiters'[1].elapsed = Shared.elapsed
       /\ CallStarts /\ lastOp[1] = "reset_cycle" /\ Shared.backoff_left > 0 =>
              /\ event'.kind = "call"
              /\ \E op \in Ops : Adds(InProgress(op, "backoff_sleep", Shared.backoff_left, 1))
              /\ limiters' = limiters
       /\ event'.kind = "wake" /\ event'.at = "backoff_sleep" =>
              \E op \in Ops : BagIn(InProgress(op, "backoff_sleep", 0, 1), calls)]_vars

C9_Witness ==
    /\ event.kind = "call"
    /\ lastOp[1] = "reset_cycle"
    /\ Shared._consecutive_429s = 0
    /\ Shared.backoff_left > 0
    /\ \E k \in BagToSet(calls) : k.pc = "backoff_sleep" /\ k.sleep = Shared.backoff_left

(* C10: wait_for_slot() writes the limiter only where it returns True: a   *)
(* call that is cancelled in its backoff sleep or its gap sleep, and every *)
(* step of a call that goes to sleep or is turned away, leaves             *)
(* _last_request_time, _backoff_until and the counter as they were; the    *)
(* step that takes the slot writes _last_request_time and nothing else.    *)
C10_AbandonedWait ==
    [][/\ event'.kind = "cancel" => limiters' = limiters
       /\ event'.kind \in {"call", "wake", "denied"} =>
              IF GrantsSlot
              THEN limiters'[1] = [Shared EXCEPT !.elapsed = 0]
              ELSE limiters' = limiters]_vars

C10_Witness ==
    /\ event.kind = "cancel"
    /\ event.at \in {"backoff_sleep", "gap_sleep"}
    /\ Shared.elapsed > 0

(* The step handles the HTTP response of a request of operation op. *)
Handles(op) ==
    /\ event'.kind = "return"
    /\ event'.op = op
    /\ event'.response # NoResponse

(* The body of the response is plain text that holds the phrase in any     *)
(* letter case.                                                            *)
TextHolds(phrase, r) == r.body = "text" /\ Contains(phrase, lower(r.text))

(* C11: in each of get_device_json, get_changed_by_json, send_action and   *)
(* get_all_devices a response of status 429, or one of status 200 whose    *)
(* body is plain text holding "too many requests" in any letter case, is   *)
(* followed by one record_rate_limit(): the counter is one higher and the  *)
(* backoff window is set.                                                  *)
C11_RateLimitRecorded ==
    [][\A op \in Ops :
          /\ Handles(op)
          /\ \/ event'.response.status = 429
             \/ event'.response.status = 200 /\ TextHolds(TextTooManyLower, event'.response)
          => /\ event'.limiterOp = "record_rate_limit"
             /\ limiters'[1]._consecutive_429s = Shared._consecutive_429s + 1
             /\ limiters'[1].backoff_left > 0]_vars

(* C12: a response to get_device_json() that is not a 429, does not parse  *)
(* as JSON, and either holds "forbidden" in any letter case or has status  *)
(* 502, is returned as {"error": <body text>} and leaves the limiter as it *)
(* was: neither record_rate_limit() nor record_success() is applied.       *)
C12_NoBackoffOnAuthOr502 ==
    [][/\ Handles("get_device_json")
       /\ event'.response.status # 429
       /\ event'.response.body = "text"
       /\ \/ TextHolds(TextForbiddenLower, event'.response)
          \/ event'.response.status = 502
       => /\ event'.value = ErrorDict(event'.response.text)
          /\ event'.limiterOp = "none"
          /\ limiters' = limiters
          /\ lastOp' = lastOp]_vars

C12_Witness ==
    /\ event.kind = "return"
    /\ event.op = "get_device_json"
    /\ event.response = TextResponse(502, TextBadGateway)
    /\ event.value = ErrorDict(TextBadGateway)
    /\ Shared._consecutive_429s > 0

(* C13: get_all_devices() makes, for every response (a text body in any    *)
(* letter case, a JSON body that carries the data array, any status), the  *)
(* limiter update that get_device_json() makes for the same response:      *)
(* record_rate_limit, record_success or none.                              *)
C13_SameClassification ==
    [][/\ Handles("get_all_devices")
       /\ event'.response.body = "json" => "data" \in event'.response.doc.keys
       => event'.limiterOp = get_device_json(event'.response).limiterOp]_vars

(* C14: send_action() returns True when the response is JSON whose         *)
(* actionStatus is "ok" in any letter case, and False, without raising,    *)
(* for every other JSON response that carries an actionStatus, whatever    *)
(* other fields it carries, and for every body that is not JSON.           *)
C14_SendActionResult ==
    [][/\ Handles("send_action")
       /\ event'.response.body = "json" => "actionStatus" \in event'.response.doc.keys
       => /\ event'.value.kind = "bool"
          /\ event'.value.tag = "True" <=>
                 /\ event'.response.status # 429
                 /\ event'.response.body = "json"
                 /\ lower(event'.response.doc.actionStatus) = TextOk]_vars

(* C15: in send_action() every response that is not a 429 and parses as    *)
(* JSON applies record_success(), whether its actionStatus is ok or not:   *)
(* the counter is 0 afterwards and the backoff window is as it was.        *)
C15_SuccessOnAnyJson ==
    [][/\ Handles("send_action")
       /\ event'.response.status # 429
       /\ event'.response.body = "json"
       => /\ event'.limiterOp = "record_success"
          /\ limiters'[1] = [Shared EXCEPT !._consecutive_429s = 0]
          /\ lastOp'[1] = "record_success"]_vars

C15_Witness ==
    /\ event.kind = "return"
    /\ event.op = "send_action"
    /\ event.response.body = "json"
    /\ event.response.doc.actionStatus = TextFail
    /\ event.limiterOp = "record_success"
    /\ Shared._consecutive_429s = 0
    /\ Shared.backoff_left > 0

(* C17: check_credentials() hands back a dict whose auth_success is True   *)
(* exactly when get_device_json() returned a result whose error is None,   *)
(* and False together with the error otherwise: for a call denied by the   *)
(* limiter, a 429, a failed transport, a body that is not JSON; it never   *)
(* raises.                                                                 *)
C17_CheckCredentials ==
    [][event'.kind \in {"return", "denied"} /\ event'.op = "check_credentials" =>
          /\ event'.value.kind = "dict"
          /\ event'.value.auth_success \in {"True", "False"}
          /\ event'.value.auth_success = "True" <=> event'.value.tag = "device"
          /\ event'.value.auth_success = "False" => event'.value.tag = "error"
          /\ event'.kind = "denied" => event'.value.auth_success = "False"
          /\ event'.response.status = 429 => event'.value.auth_success = "False"
          /\ event'.response.body = "text" => event'.value.auth_success = "False"]_vars

(* The entries of the action list that count for the area: not a bypass,   *)
(* PGM or utility-key command, of that area, created after 0.              *)
C16_Counts(changes, area) ==
    { i \in 1..Len(changes) :
          /\ changes[i].actionCmd \notin
                 {"zone-bypass", "pgm-open", "pgm-close", "pgm-pulse", "ukey-activate"}
          /\ changes[i].actionNum = area
          /\ changes[i].actionCreated > 0 }

C16_Reordered(changes) ==
    { [i \in 1..Len(changes) |-> changes[f[i]]] : f \in Permutations(1..Len(changes)) }

(* C16: get_changed_by_json(area) on a parsed action list returns an entry *)
(* that counts for the area and is not older than any other that counts,   *)
(* and the default "No User" record when none counts; every reordering of  *)
(* the list gives the same result unless two entries that count are of the *)
(* same age.                                                               *)
C16_LatestChange ==
    result # Nothing =>
        LET changes == argument.changes
            area == argument.area
            counts == C16_Counts(changes, area)
        IN  /\ result.kind = "dict"
            /\ counts = {} =>
                   /\ result.item.userFullname = "No User"
                   /\ result.item.actionCreated = 0
            /\ counts # {} =>
                   \E i \in counts :
                       /\ result.item.userFullname = changes[i].userFullname
                       /\ result.item.actionCreated = changes[i].actionCreated
                       /\ result.item.actionCmd = changes[i].actionCmd
                       /\ result.item.actionNum = changes[i].actionNum
                       /\ \A j \in counts :
                              changes[j].actionCreated <= changes[i].actionCreated
            /\ (\A i, j \in counts :
                    i # j => changes[i].actionCreated # changes[j].actionCreated)
                => \A other \in C16_Reordered(changes) :
                       get_changed_by_json(ActionsResponse(other), area).value = result

C16_Witness ==
    /\ argument.changes = <<Change("Ann", 7, "zone-bypass", 1), Change("Bob", 5, "area-arm", 1)>>
    /\ argument.area = 1
    /\ result.kind = "dict"
    /\ result.item.userFullname = "Bob"
    /\ result.item.actionCreated = 5

(* A decoder has been applied to a payload that holds deviceState and      *)
(* deviceProfile.                                                          *)
DecodedBy(fn) ==
    /\ result.fn = fn
    /\ {"deviceState", "deviceProfile"} \subseteq argument.keys

(* C18: no decoder raises: for every payload that holds deviceState and    *)
(* deviceProfile, with arrays missing or short and numeric fields          *)
(* malformed (zonesLimit 0 or missing, power values that are no numbers,   *)
(* utility-key arrays shorter than ukeysLimit), get_sensor_states,         *)
(* get_sensor_bypass_states, get_panel_states, get_pgm_zones and           *)
(* get_ukey_zones each return a list.                                      *)
C18_DecodersNeverRaise ==
    \A fn \in Decoders : DecodedBy(fn) => result.out.raised = ""

(* C19: a list decoder that meets an index out of range at loop index k    *)
(* returns the k records of the indices below k: no empty list, no         *)
(* exception.                                                              *)
C19_PartialList ==
    \A fn \in Decoders :
        DecodedBy(fn) /\ FirstIndexError(fn, argument) >= 0 =>
            /\ result.out.raised = ""
            /\ Len(result.out.list) = FirstIndexError(fn, argument)

(* The payload of the example: zonesLimit = 3, zones = "Aab", no power     *)
(* fields.                                                                 *)
C20_Example ==
    /\ {"deviceState", "deviceProfile"} \subseteq argument.keys
    /\ "zonesLimit" \in argument.deviceProfile.keys
    /\ argument.deviceProfile.zonesLimit = Num(3)
    /\ "zones" \in argument.deviceState.keys
    /\ argument.deviceState.zones = <<Str(<<"A">>), Str(<<"a">>), Str(<<"b">>)>>
    /\ {"power", "powerAC"} \cap argument.deviceState.keys = {}

(* C20 as stated: on the example get_sensor_states gives zone 0 on and     *)
(* zones 1 and 2 off; get_sensor_bypass_states gives zone 0 off and zones  *)
(* 1 and 2 on exactly when their character is "b" in either case.          *)
C20_ZoneExample ==
    C20_Example =>
        /\ result.fn = "get_sensor_states" =>
               /\ Len(result.out.list) = 3
               /\ result.out.list[1].state = "on"
               /\ result.out.list[2].state = "off"
               /\ result.out.list[3].state = "off"
        /\ result.fn = "get_sensor_bypass_states" =>
               /\ Len(result.out.list) = 3
               /\ result.out.list[1].state = "off"
               /\ result.out.list[2].state = "off"
               /\ result.out.list[3].state = "on"

(* C20 amended: on the example get_sensor_states gives zones 0 and 1 on    *)
(* ("A" and "a" both count as active) and zone 2 off;                      *)
(* get_sensor_bypass_states gives zones 0 and 1 off and zone 2 on.         *)
C20_ZoneExampleAmended ==
    C20_Example =>
        /\ result.fn = "get_sensor_states" =>
               /\ Len(result.out.list) = 3
               /\ result.out.list[1].state = "on"
               /\ result.out.list[2].state = "on"
               /\ result.out.list[3].state = "off"
        /\ result.fn = "get_sensor_bypass_states" =>
               /\ Len(result.out.list) = 3
               /\ result.out.list[1].state = "off"
               /\ result.out.list[2].state = "off"
               /\ result.out.list[3].state = "on"

C20_Witness ==
    /\ C20_Example
    /\ result.fn = "get_sensor_states"
    /\ result.out.raised = ""
    /\ Len(result.out.list) = 3
    /\ result.out.list[2].state = "on"
    /\ result.out.list[2].zone_number = 1

(* The zone arrays of the payload, empty where the payload lacks them *)
Field(object, field) == IF field \in object.keys THEN object[field] ELSE <<>>

(* The payload gives zonesLimit as a number *)
NumericLimit ==
    /\ {"deviceState", "deviceProfile"} \subseteq argument.keys
    /\ "zonesLimit" \in argument.deviceProfile.keys
    /\ argument.deviceProfile.zonesLimit.t = "num"

(* The power sources of the payload: the structured map, or the two made   *)
(* of the legacy fields                                                    *)
PowerCount ==
    IF Field(argument.deviceState, "power") # <<>>
    THEN Len(argument.deviceState.power)
    ELSE IF "powerAC" \in argument.deviceState.keys THEN 2 ELSE 0

PowerWellFormed ==
    \A p \in 1..Len(Field(argument.deviceState, "power")) :
        argument.deviceState.power[p].value.t = "num"

(* C21: the zone count is driven by zonesLimit only: for every payload     *)
(* with a numeric zonesLimit get_sensor_bypass_states returns exactly      *)
(* zonesLimit records and get_sensor_states returns exactly zonesLimit     *)
(* zone records followed by the power records, whatever the lengths of     *)
(* zones, zonesStamp, zonesLabels and zonesTypes; a zone index beyond      *)
(* zones is off, beyond zonesLabels is named "Zone {i+1}", beyond          *)
(* zonesTypes has type 0.                                                  *)
C21_ZoneCount ==
    NumericLimit =>
        LET limit == argument.deviceProfile.zonesLimit.n
            list == result.out.list
            Defaults(i) ==
                /\ list[i].zone_number = i - 1
                /\ i > Len(Field(argument.deviceState, "zones")) => list[i].state = "off"
                /\ i > Len(Field(argument.deviceProfile, "zonesLabels")) =>
                       list[i].name = Generated("Zone", i)
        IN  /\ result.fn = "get_sensor_bypass_states" =>
                /\ result.out.raised = ""
                /\ Len(list) = limit
                /\ \A i \in 1..limit : Defaults(i)
            /\ result.fn = "get_sensor_states" /\ PowerWellFormed =>
                /\ result.out.raised = ""
                /\ Len(list) = limit + PowerCount
                /\ \A i \in 1..limit :
                       /\ Defaults(i)
                       /\ i > Len(Field(argument.deviceProfile, "zonesTypes")) =>
                              list[i].type = 0

(* The PGM limit get_pgm_zones loops to: pgmLimit, or the number of labels *)
(* when pgmLimit is missing or 0                                           *)
PgmLimit ==
    LET profile == argument.deviceProfile
    IN  IF "pgmLimit" \in profile.keys /\ IntOf(profile.pgmLimit).ex = ""
           /\ IntOf(profile.pgmLimit).n # 0
        THEN IntOf(profile.pgmLimit).n
        ELSE Len(Field(profile, "pgmLabels"))

(* The indices below the PGM limit whose setup string is there and not     *)
(* empty                                                                   *)
Configured ==
    LET control == Field(argument.deviceProfile, "pgmControl")
    IN  { i \in 0..(PgmLimit - 1) : i < Len(control) /\ control[i + 1] # Str(<<>>) }

(* C22: PGM decoding skips unconfigured entries: an index below the PGM    *)
(* limit whose setup-control string is empty, or missing because           *)
(* pgmControl is shorter, gets no record; the records returned are those   *)
(* of the configured indices in order, each with pgm_number = index + 1    *)
(* and the flags of its own setup string (no renumbering).                 *)
C22_PgmSkipsUnconfigured ==
    DecodedBy("get_pgm_zones") /\ result.out.raised = "" =>
        LET list == result.out.list
            control == Field(argument.deviceProfile, "pgmControl")
        IN  /\ Len(list) = Cardinality(Configured)
            /\ \A r \in 1..Len(list) :
                   LET i == list[r].pgm_number - 1
                   IN  /\ i \in Configured
                       /\ Cardinality({ j \in Configured : j < i }) = r - 1
                       /\ list[r].enabled = (StrOf(control[i + 1])[1] = "1")

(* Three PGMs, the second with an empty setup string: two records,         *)
(* numbered 1 and 3                                                        *)
C22_Witness ==
    /\ DecodedBy("get_pgm_zones")
    /\ PgmLimit = 3
    /\ Len(Field(argument.deviceProfile, "pgmControl")) = 3
    /\ argument.deviceProfile.pgmControl[2] = Str(<<>>)
    /\ result.out.raised = ""
    /\ Len(result.out.list) = 2
    /\ result.out.list[1].pgm_number = 1
    /\ result.out.list[2].pgm_number = 3

UkeyFields == {"ukeysLabels", "ukeysLimit", "ukeysControl"}

(* C23: utility-key decoding requires all three of ukeysLabels, ukeysLimit *)
(* and ukeysControl in the device profile: when any one of them is absent  *)
(* get_ukey_zones returns an empty list, also when the other two are       *)
(* present.                                                                *)
C23_UkeysNeedAllThree ==
    DecodedBy("get_ukey_zones") /\ ~(UkeyFields \subseteq argument.deviceProfile.keys) =>
        /\ result.out.raised = ""
        /\ result.out.list = <<>>

(* Labels and a limit of one key or more are there, ukeysControl is not *)
C23_Witness ==
    /\ DecodedBy("get_ukey_zones")
    /\ UkeyFields \cap argument.deviceProfile.keys = {"ukeysLabels", "ukeysLimit"}
    /\ argument.deviceProfile.ukeysLimit.t = "num"
    /\ argument.deviceProfile.ukeysLimit.n >= 1
    /\ Len(argument.deviceProfile.ukeysLabels) >= 1
    /\ result.out = Returns(<<>>)

(* The payload has no structured power map, or an empty one, and has       *)
(* powerAC                                                                 *)
LegacyPowerOnly ==
    /\ NumericLimit
    /\ Field(argument.deviceState, "power") = <<>>
    /\ "powerAC" \in argument.deviceState.keys

(* C24: legacy power decoding: when the structured power map is absent or  *)
(* empty and powerAC is present, get_sensor_states appends exactly two     *)
(* records after the zone records: "AC", on exactly when powerAC is "ok",  *)
(* of type 1000, and "Battery", on exactly when powerBattery is "ok", of   *)
(* type 1001.                                                              *)
C24_LegacyPower ==
    result.fn = "get_sensor_states" /\ LegacyPowerOnly =>
        LET limit == argument.deviceProfile.zonesLimit.n
            list == result.out.list
            state == argument.deviceState
        IN  /\ result.out.raised = ""
            /\ Len(list) = limit + 2
            /\ list[limit + 1].name = PoweredBy("AC")
            /\ list[limit + 1].type = 1000
            /\ list[limit + 1].state = "on" <=> state.powerAC = Str(<<"o", "k">>)
            /\ list[limit + 2].name = PoweredBy("Battery")
            /\ list[limit + 2].type = 1001
            /\ list[limit + 2].state = "on" <=>
                   /\ "powerBattery" \in state.keys
                   /\ state.powerBattery = Str(<<"o", "k">>)

(* C25: power records continue the zone-number sequence: for every         *)
(* zonesLimit >= 0 get_sensor_states returns a list whose zone records are *)
(* numbered 0..zonesLimit-1 and whose j-th power record (j from 0) is      *)
(* numbered zonesLimit + j, so the zone_number values of the list are      *)
(* 0..len-1 in order and pairwise distinct.                                *)
C25_PowerContinuesNumbering ==
    result.fn = "get_sensor_states" /\ NumericLimit /\ PowerWellFormed
    /\ argument.deviceProfile.zonesLimit.n >= 0 =>
        LET limit == argument.deviceProfile.zonesLimit.n
            list == result.out.list
        IN  /\ result.out.raised = ""
            /\ Len(list) = limit + PowerCount
            /\ \A r \in 1..Len(list) : list[r].zone_number = r - 1
            /\ \A j \in 0..(PowerCount - 1) :
                   /\ list[limit + j + 1].zone_number = limit + j
                   /\ list[limit + j + 1].type \in {1000, 1001}

(* C26: records are recomputed from scratch on every poll: over any        *)
(* sequence of decoder calls on OlarmApi objects, what a call of           *)
(* get_sensor_states, get_sensor_bypass_states or get_panel_states hands   *)
(* back (also when the decode aborts early) is what the decoder makes of   *)
(* the payload of that call alone: it holds no record of an earlier call,  *)
(* and the same payload gives the same list every time.                    *)
C26_RecomputedFromScratch ==
    result.fn \in ListDecoders =>
        /\ result.out = Decode(result.fn, argument)
        /\ result.out.raised = "" /\ {"deviceState", "deviceProfile"} \subseteq argument.keys
           /\ "zonesLimit" \in argument.deviceProfile.keys
           /\ result.fn # "get_panel_states" =>
               \A r \in 1..argument.deviceProfile.zonesLimit.n :
                   result.out.list[r].zone_number = r - 1

(* A call on an object whose list held the records of an earlier call      *)
(* returns a list of other records                                         *)
C26_Witness ==
    /\ event.kind = "poll"
    /\ event.at = "used"
    /\ result.fn = "get_sensor_states"
    /\ result.out.raised = ""
    /\ Len(result.out.list) = 1
    /\ \E c \in Clients : apis[c].data = result.out.list

(* A call that aborts early on an object whose list held records returns   *)
(* the empty list                                                          *)
C26_WitnessAborted ==
    /\ event.kind = "poll"
    /\ event.at = "used"
    /\ {"deviceState", "deviceProfile"} \subseteq argument.keys
    /\ "zonesLimit" \notin argument.deviceProfile.keys
    /\ result.fn = "get_sensor_bypass_states"
    /\ result.out = Returns(<<>>)

(* C27: sequential bound on the counter: when the calls under one          *)
(* credential are made one at a time, so that record_rate_limit() is only  *)
(* applied by a call whose wait_for_slot() returned True, the counter      *)
(* never exceeds API_MAX_CONSECUTIVE_429 = 3 and the backoff window never  *)
(* exceeds 240 s.                                                          *)
C27_SequentialCounterBound ==
    /\ Shared._consecutive_429s <= API_MAX_CONSECUTIVE_429
    /\ Shared.backoff_left <= 240

(* The third rate-limit answer in a row has just been recorded *)
C27_Witness ==
    /\ event.kind = "return"
    /\ event.limiterOp = "record_rate_limit"
    /\ Shared._consecutive_429s = 3
    /\ Shared.backoff_left = 240
    /\ calls = EmptyBag

(* C28: a tripped breaker reopens only through reset_cycle(): while the    *)
(* counter is 3 or more (no reset_cycle() since it got there) and no       *)
(* request is in flight, no step grants a slot, however much time has      *)
(* passed and whether or not the backoff window is over, and no step       *)
(* applies record_success().                                               *)
C28_BreakerStaysOpen ==
    [][Shared._consecutive_429s >= API_MAX_CONSECUTIVE_429 /\ Requests(calls) = 0 =>
          /\ ~GrantsSlot
          /\ event'.limiterOp # "record_success"]_vars

(* C29: the backoff deadline never moves earlier: in every execution, also *)
(* with several requests in flight whose responses apply                   *)
(* record_rate_limit(), record_success() and reset_cycle() in any order,   *)
(* a record_rate_limit() leaves _backoff_until at or after the instant it  *)
(* held before (the window left after it is no shorter than the window     *)
(* left before it).                                                        *)
C29_BackoffNeverEarlier ==
    [][event'.limiterOp = "record_rate_limit" =>
          limiters'[1].backoff_left >= Shared.backoff_left]_vars

(* The calls suspended at the await `pc` of wait_for_slot *)
Suspended(bag, pc) ==
    LET there == {k \in BagToSet(bag) : k.pc = pc}
    IN  BagCardinality([k \in there |-> bag[k]])

(* C30: wait_for_slot() always terminates.  A call suspends at most twice, *)
(* once in the backoff wait and then once in the gap wait, and never looks *)
(* again in a loop: only a starting call enters the backoff wait or is     *)
(* turned away, the end of a backoff wait leads to the gap wait or to the  *)
(* slot, the end of a gap wait leads to the slot.  And while time passes   *)
(* and sleeps that are over end, every suspended call leaves               *)
(* wait_for_slot() in the end, whatever other callers do to the limiter;   *)
(* as a suspended call is never turned away, it leaves with True unless it *)
(* is cancelled.                                                           *)
C30_AlwaysTerminates ==
    /\ [][/\ Suspended(calls', "backoff_sleep") > Suspended(calls, "backoff_sleep") =>
                CallStarts
          /\ event'.kind = "denied" => CallStarts /\ Shared._consecutive_429s >= 3
          /\ CallStarts /\ Shared._consecutive_429s < 3 => event'.kind = "call"
          /\ event'.kind = "wake" /\ event'.at = "backoff_sleep" =>
                /\ Suspended(calls', "backoff_sleep") = Suspended(calls, "backoff_sleep") - 1
                /\ \/ GrantsSlot /\ Suspended(calls', "gap_sleep") = Suspended(calls, "gap_sleep")
                   \/ /\ Suspended(calls', "gap_sleep") = Suspended(calls, "gap_sleep") + 1
                      /\ Requests(calls') = Requests(calls)
          /\ event'.kind = "wake" /\ event'.at = "gap_sleep" =>
                /\ GrantsSlot
                /\ Suspended(calls', "gap_sleep") = Suspended(calls, "gap_sleep") - 1
                /\ Suspended(calls', "backoff_sleep") = Suspended(calls, "backoff_sleep")]_vars
    /\ (Suspended(calls, "backoff_sleep") + Suspended(calls, "gap_sleep") > 0)
           ~> (Suspended(calls, "backoff_sleep") + Suspended(calls, "gap_sleep") = 0)

(* A call that slept out the backoff window has just gone on to the gap    *)
(* wait, its second suspension, while another holds the slot               *)
C30_Witness ==
    /\ event.kind = "wake"
    /\ event.at = "backoff_sleep"
    /\ Suspended(calls, "gap_sleep") = 1
    /\ Requests(calls) = 1

====
